---- MODULE Spec2Model ----
(***************************************************************************)
(* Model of pixels-ray/src/main.rs: the progressive path tracer driven by  *)
(* the bevy `draw` system.                                                  *)
(*                                                                          *)
(* Numbers.  f64 colour channels are fixed-point integers in units of       *)
(* 1/Unit (Unit stands for 1.0).  Addition is exact; multiplication and     *)
(* division round toward zero, standing for f64 rounding.                   *)
(*                                                                          *)
(* Randomness.  StdRng is a deterministic generator: its state is one       *)
(* integer, every draw advances the state and the value drawn is a          *)
(* function of the new state.                                               *)
(*                                                                          *)
(* Geometry.  The ray_tracing crate (Sphere::hit, Material::scatter,        *)
(* Camera::get_ray, Ray::background) is a dependency; main.rs only calls    *)
(* it.  A ray is one of finitely many ray classes; a sphere is given by     *)
(* the parameter t at which each ray class first meets it (0: never).       *)
(* Whether Sphere::hit admits a root equal to t_max is not decided by       *)
(* main.rs: both conventions are modelled (hitBound).                       *)
(*                                                                          *)
(* Sample counts are u32 in the source; within the bounds explored here     *)
(* they stay far below 2^32 and are modelled as plain integers.             *)
(***************************************************************************)
EXTENDS Integers, Sequences, FiniteSets, TLC

VARIABLES
    rng,        \* Random(StdRng): the generator state
    hitBound,   \* "open" | "closed": whether Sphere::hit admits t = t_max
    objects,    \* World.objects, spheres as intersection tables
    pixels,     \* Pixels.pixels: sequence of [sum, count], index y*width+x+1
    frame,      \* PixelsWrapper frame bytes (<<>> while there is no wrapper)
    wrapper,    \* "none" | "present" | "closed": the PixelsWrapper entity
    drawn,      \* history: camera pixel <<x, y>> -> colours drawn for it
    added,      \* history: add_color arguments <<x, y>> -> colours passed
    ticks,      \* history: number of draw runs that had a pixel buffer
    idle,       \* history: number of draw runs that had none
    shown,      \* history: the colours the last draw read from the buffer
    ray,        \* ray_color call: the ray argument
    depth,      \* ray_color call: the depth argument
    result,     \* ray_color call: what the call returned
    aspect,     \* from_rng call: the aspect_ratio argument, in tenths
    world       \* from_rng call: the World built (built = FALSE before)

vars == <<rng, hitBound, objects, pixels, frame, wrapper, drawn, added, ticks,
          idle, shown, ray, depth, result, aspect, world>>

----------------------------------------------------------------------------
(* Bounds of the model *)

\* 1.0 in fixed point
Unit == 20
\* number of states of the generator
RngMod == 64
\* number of generator states ray_color is tried from
NSeeds == 4
\* ray classes 0 .. NRays-1
NRays == 2
\* largest intersection parameter
MaxT == 2
\* longest object list tried for ray_color
MaxObjects == 2
\* largest depth tried for ray_color
MaxDepthTried == 4
\* WIDTH and HEIGHT of the image, scaled down
WIDTH == 3
HEIGHT == 2
\* samples per draw run (10000 in the source), scaled down
BatchSize == 3
\* the depth draw passes to ray_color (50 in the source), scaled down
RecursionDepth == 6
\* draw runs explored with and without a pixel buffer
MaxTicks == 2
MaxIdle == 1

----------------------------------------------------------------------------
(* Colours *)

Color(r, g, b) == <<r, g, b>>

BLACK == Color(0, 0, 0)

WHITE == Color(Unit, Unit, Unit)

\* Color + Color
ColorAdd(a, b) == <<a[1] + b[1], a[2] + b[2], a[3] + b[3]>>

\* Color * Color, channel by channel
ColorMul(a, b) ==
    <<(a[1] * b[1]) \div Unit,
      (a[2] * b[2]) \div Unit,
      (a[3] * b[3]) \div Unit>>

\* Color / f64, the divisor a sample count
ColorDiv(a, n) == <<a[1] \div n, a[2] \div n, a[3] \div n>>

----------------------------------------------------------------------------
(* Random source *)

StdRngNext(s) == (5 * s + 3) % RngMod

\* rng.gen_range(0..n)
GenRange(s, n) ==
    [val |-> (StdRngNext(s) * n) \div RngMod, rng |-> StdRngNext(s)]

\* rng.gen::<f64>(), a value of [0, 1) in fixed point
GenF64(s) == GenRange(s, Unit)

----------------------------------------------------------------------------
(* The scene as ray_color sees it *)

Rays == 0 .. (NRays - 1)

INFINITY == MaxT + 1

\* Ray::background: the white to sky-blue gradient on the ray's direction
Background(r) ==
    LET k == r % 3
        blue == Color(Unit \div 2, (7 * Unit) \div 10, Unit)
    IN  <<((2 - k) * Unit + k * blue[1]) \div 2,
          ((2 - k) * Unit + k * blue[2]) \div 2,
          ((2 - k) * Unit + k * blue[3]) \div 2>>

\* Sphere::hit(ray, t_max): the first root inside (epsilon, t_max), or
\* inside (epsilon, t_max] when the bound is closed
SphereHit(sphere, r, t_max) ==
    IF /\ sphere[r] # 0
       /\ \/ sphere[r] < t_max
          \/ hitBound = "closed" /\ sphere[r] = t_max
    THEN [some |-> TRUE, t |-> sphere[r]]
    ELSE [some |-> FALSE, t |-> 0]

\* Material::Lambertian { color }
Lambertian(c) == [kind |-> "Lambertian", color |-> c]

\* Material::Metal { color, fuzz }, fuzz in units of 1/Unit
Metal(c, f) == [kind |-> "Metal", color |-> c, fuzz |-> f]

\* Material::Dielectric { index_of_refraction }, the index in tenths
Dielectric(ior) == [kind |-> "Dielectric", index_of_refraction |-> ior]

\* Material::scatter(rng, ray, hit): the scattered ray and the attenuation,
\* or absorption (some = FALSE).  Every variant consumes one draw.
MaterialScatter(mate, s, r, t) ==
    LET d == GenRange(s, 2 * NRays)
        nr == (r + t + d.val) % NRays
    IN  CASE mate.kind = "Lambertian" ->
               [some |-> TRUE, ray |-> nr, attenuation |-> mate.color,
                rng |-> d.rng]
          [] mate.kind = "Metal" ->
               IF mate.fuzz > 0 /\ d.val % 2 = 0
               THEN [some |-> FALSE, ray |-> r, attenuation |-> BLACK,
                     rng |-> d.rng]
               ELSE [some |-> TRUE, ray |-> (r + 1) % NRays,
                     attenuation |-> mate.color, rng |-> d.rng]
          [] OTHER ->
               [some |-> TRUE, ray |-> nr, attenuation |-> WHITE, rng |-> d.rng]

----------------------------------------------------------------------------
(* World::ray_color *)

\* lines 108-109: t_max = INFINITY, hit = None (hit = 0: no object)
ScanInit == [t_max |-> INFINITY, hit |-> 0, t |-> 0]

\* a scan body that lets a later hit at the same t replace the current one
ScanStepTieReplaces(st, o, i, r) ==
    LET new_hit == SphereHit(o.sphere, r, st.t_max)
    IN  IF new_hit.some /\ ~(st.hit # 0 /\ st.t < new_hit.t)
        THEN [t_max |-> new_hit.t, hit |-> i, t |-> new_hit.t]
        ELSE st

\* lines 111-116: the body of the scan, for object o at position i
ScanStep(st, o, i, r) ==
    LET new_hit == SphereHit(o.sphere, r, st.t_max)
    IN  IF new_hit.some /\ ~(st.hit # 0 /\ st.t <= new_hit.t)
        THEN [t_max |-> new_hit.t, hit |-> i, t |-> new_hit.t]
        ELSE st

RECURSIVE ScanFrom(_, _, _, _)
\* lines 110-117: for o in self.objects.iter()
ScanFrom(st, objs, i, r) ==
    IF i > Len(objs) THEN st
    ELSE ScanFrom(ScanStep(st, objs[i], i, r), objs, i + 1, r)

NearestHit(objs, r) == ScanFrom(ScanInit, objs, 1, r)

\* what ray_color returns at depth 0, were the budget check to fall through
\* to the background
DepthZeroBackground(s, r) ==
    [color |-> Background(r), rng |-> s, resolves |-> 0, scatters |-> 0,
     first |-> 0]

\* lines 105-107
DepthZero(s, r) ==
    [color |-> BLACK, rng |-> s, resolves |-> 0, scatters |-> 0, first |-> 0]

\* absorption that lets the background through
AbsorbedBackground(sc, r, h) ==
    [color |-> Background(r), rng |-> sc.rng, resolves |-> 1, scatters |-> 1,
     first |-> h.hit]

\* lines 121-123: the material absorbed the ray
Absorbed(sc, r, h) ==
    [color |-> BLACK, rng |-> sc.rng, resolves |-> 1, scatters |-> 1,
     first |-> h.hit]

\* a bounce that drops the attenuation
BounceUnattenuated(sc, rec, h) ==
    [color |-> rec.color, rng |-> rec.rng, resolves |-> 1 + rec.resolves,
     scatters |-> 1 + rec.scatters, first |-> h.hit]

\* line 120: attenuation * self.ray_color(rng, &ray, depth - 1)
Bounce(sc, rec, h) ==
    [color |-> ColorMul(sc.attenuation, rec.color), rng |-> rec.rng,
     resolves |-> 1 + rec.resolves, scatters |-> 1 + rec.scatters,
     first |-> h.hit]

RECURSIVE RayColor(_, _, _, _)
\* lines 104-127.  Returns the colour and the generator state after the
\* call; resolves and scatters count the nearest-hit scans and the scatter
\* calls made, first is the object the first scan selected (0: none).
RayColor(objs, s, r, d) ==
    IF d = 0 THEN DepthZero(s, r)
    ELSE LET h == NearestHit(objs, r)
         IN  IF h.hit # 0
             THEN LET sc == MaterialScatter(objs[h.hit].material, s, r, h.t)
                  IN  IF sc.some
                      THEN Bounce(sc, RayColor(objs, sc.rng, sc.ray, d - 1), h)
                      ELSE Absorbed(sc, r, h)
             ELSE [color |-> Background(r), rng |-> s, resolves |-> 1,
                   scatters |-> 0, first |-> 0]

----------------------------------------------------------------------------
(* Pixels: the accumulation buffer *)

\* lines 138-144
PixelsNew(w, h) ==
    [width |-> w, height |-> h,
     pixels |-> [i \in 1 .. (w * h) |-> [sum |-> BLACK, count |-> 0]]]

\* add_color that overwrites the sum with the newest colour
AddColorLastWrite(p, x, y, color) ==
    LET i == y * p.width + x
    IN  [p EXCEPT !.pixels[i + 1] = [sum |-> color, count |-> @.count + 1]]

\* lines 146-150 (the Vec is indexed from 0, the sequence from 1)
AddColor(p, x, y, color) ==
    LET i == y * p.width + x
    IN  [p EXCEPT !.pixels[i + 1] =
                      [sum |-> ColorAdd(@.sum, color), count |-> @.count + 1]]

\* a read that drains what it has read
IterDraining(p) ==
    [items |-> [i \in 1 .. Len(p.pixels) |->
                   IF p.pixels[i].count > 0
                   THEN ColorDiv(p.pixels[i].sum, p.pixels[i].count)
                   ELSE BLACK],
     self |-> [p EXCEPT !.pixels =
                  [i \in 1 .. Len(p.pixels) |-> [sum |-> BLACK, count |-> 0]]]]

\* lines 152-160: the colours yielded, and the buffer as the read leaves it
Iter(p) ==
    [items |-> [i \in 1 .. Len(p.pixels) |->
                   IF p.pixels[i].count > 0
                   THEN ColorDiv(p.pixels[i].sum, p.pixels[i].count)
                   ELSE BLACK],
     self |-> p]

----------------------------------------------------------------------------
(* ray_color as a function: SpecRay draws a scene, a generator state and a *)
(* ray, and calls ray_color on them with some depth.                       *)

\* generator states spread over the generator's range
Seeds == {(k * RngMod) \div NSeeds : k \in 0 .. (NSeeds - 1)}

\* a sphere per offset t0: ray class r first meets it at (t0 + r) mod
\* (MaxT + 1), 0 standing for no intersection
Spheres == {[r \in Rays |-> (t0 + r) % (MaxT + 1)] : t0 \in 0 .. MaxT}

Materials ==
    {Lambertian(Color(Unit \div 2, Unit \div 2, Unit \div 2)),
     Metal(Color((7 * Unit) \div 10, (6 * Unit) \div 10, Unit \div 2), 1),
     Dielectric(15)}

Objects == [sphere : Spheres, material : Materials]

SeqsUpTo(S, n) == UNION {[1 .. k -> S] : k \in 0 .. n}

NoResult ==
    [called |-> FALSE, rng0 |-> 0,
     out |-> [color |-> BLACK, rng |-> 0, resolves |-> 0, scatters |-> 0,
              first |-> 0]]

\* the variables of the other specifications, at rest
RenderIdle ==
    /\ pixels = PixelsNew(0, 0)
    /\ frame = <<>>
    /\ wrapper = "none"
    /\ drawn = <<>>
    /\ added = <<>>
    /\ ticks = 0
    /\ idle = 0
    /\ shown = <<>>

BuildIdle ==
    /\ aspect = 0
    /\ world = [built |-> FALSE]

InitRay ==
    /\ rng \in Seeds
    /\ hitBound \in {"open", "closed"}
    /\ objects \in SeqsUpTo(Objects, MaxObjects)
    /\ ray \in Rays
    /\ depth = 0
    /\ result = NoResult
    /\ RenderIdle
    /\ BuildIdle

\* world.ray_color(&mut rng, &ray, d)
RayColorCall ==
    /\ ~result.called
    /\ \E d \in 0 .. MaxDepthTried :
         LET out == RayColor(objects, rng, ray, d)
         IN  /\ depth' = d
             /\ result' = [called |-> TRUE, rng0 |-> rng, out |-> out]
             /\ rng' = out.rng
    /\ UNCHANGED <<hitBound, objects, pixels, frame, wrapper, drawn, added,
                   ticks, idle, shown, ray, aspect, world>>

NextRay == RayColorCall

SpecRay == InitRay /\ [][NextRay]_vars

\* the objects that ray r meets at all
Hitters(objs, r) == {i \in 1 .. Len(objs) : objs[i].sphere[r] # 0}

\* k is the nearest of the objects ray r meets, the earliest among equals
IsNearestFirst(objs, r, k) ==
    /\ k \in Hitters(objs, r)
    /\ \A i \in Hitters(objs, r) :
         /\ objs[k].sphere[r] <= objs[i].sphere[r]
         /\ objs[i].sphere[r] = objs[k].sphere[r] => k <= i

\* C3: ray_color with depth 0 returns exactly black, resolves no hit, calls
\* no scatter and leaves the generator where it was.
C3_DepthZeroBlack ==
    (result.called /\ depth = 0) =>
        /\ result.out.color = BLACK
        /\ result.out.resolves = 0
        /\ result.out.scatters = 0
        /\ result.out.rng = result.rng0
        /\ rng = result.rng0

C3_Witness ==
    /\ result.called
    /\ depth = 0
    /\ Hitters(objects, ray) # {}
    /\ Background(ray) # BLACK

\* C4: with depth 1, ray_color returns exactly black for a ray that meets
\* any object and the ray's background for a ray that meets none; one such
\* sample deposited at a pixel of a fresh buffer reads back as that colour.
C4_DepthOne ==
    (result.called /\ depth = 1) =>
        LET expected == IF Hitters(objects, ray) # {} THEN BLACK
                        ELSE Background(ray)
        IN  /\ result.out.color = expected
            /\ \A x \in 0 .. (WIDTH - 1), y \in 0 .. (HEIGHT - 1) :
                 LET one == AddColor(PixelsNew(WIDTH, HEIGHT), x, y,
                                     result.out.color)
                 IN  /\ Iter(one).items[y * WIDTH + x + 1] = expected
                     /\ one.pixels[y * WIDTH + x + 1].count = 1

C4_WitnessHit ==
    /\ result.called
    /\ depth = 1
    /\ Hitters(objects, ray) # {}
    /\ result.out.scatters = 1

\* C8: the scan selects the object with the least t among those the ray
\* meets, the earliest in scene order among equals, after every prefix of
\* the object list; with no object met nothing is selected and ray_color
\* returns the background.
C8_NearestHit ==
    /\ \A j \in 0 .. Len(objects) :
         LET pre == SubSeq(objects, 1, j)
             h == NearestHit(pre, ray)
         IN  IF Hitters(pre, ray) = {} THEN h.hit = 0
             ELSE /\ IsNearestFirst(pre, ray, h.hit)
                  /\ h.t = pre[h.hit].sphere[ray]
    /\ (result.called /\ depth >= 1) =>
         IF Hitters(objects, ray) = {}
         THEN result.out.first = 0 /\ result.out.color = Background(ray)
         ELSE IsNearestFirst(objects, ray, result.out.first)

C8_Witness ==
    /\ result.called
    /\ depth >= 1
    /\ Len(objects) = 2
    /\ objects[1].sphere[ray] # 0
    /\ objects[1].sphere[ray] = objects[2].sphere[ray]
    /\ objects[1].material # objects[2].material
    /\ hitBound = "closed"
    /\ result.out.first = 1

RECURSIVE PathWalk(_, _, _, _, _)
\* the path of a ray as a loop: the attenuations of the scatters so far and,
\* once the path ends, its terminal value
PathWalk(objs, s, r, d, atts) ==
    IF d = 0 THEN [atts |-> atts, terminal |-> BLACK, last |-> "budget"]
    ELSE LET h == NearestHit(objs, r)
         IN  IF h.hit = 0
             THEN [atts |-> atts, terminal |-> Background(r), last |-> "miss"]
             ELSE LET sc == MaterialScatter(objs[h.hit].material, s, r, h.t)
                  IN  IF sc.some
                      THEN PathWalk(objs, sc.rng, sc.ray, d - 1,
                                    Append(atts, sc.attenuation))
                      ELSE [atts |-> atts, terminal |-> BLACK,
                            last |-> "absorbed"]

RECURSIVE ProductFrom(_, _, _)
\* atts[i] * (atts[i+1] * (... * terminal))
ProductFrom(atts, i, terminal) ==
    IF i > Len(atts) THEN terminal
    ELSE ColorMul(atts[i], ProductFrom(atts, i + 1, terminal))

\* C9: ray_color(ray, d) makes at most d nearest-hit scans and at most d
\* scatter calls, and returns the attenuations along the path multiplied
\* onto the terminal value: the last ray's background if it meets nothing,
\* black on absorption or when the budget is spent.
C9_PathProduct ==
    result.called =>
        LET p == PathWalk(objects, result.rng0, ray, depth, <<>>)
        IN  /\ result.out.resolves <= depth
            /\ result.out.scatters <= depth
            /\ result.out.color = ProductFrom(p.atts, 1, p.terminal)

C9_Witness ==
    /\ result.called
    /\ depth = MaxDepthTried
    /\ result.out.scatters >= 2
    /\ result.out.resolves = result.out.scatters + 1
    /\ result.out.color # BLACK
    /\ result.out.color # Background(ray)

----------------------------------------------------------------------------
(* The application: main and the draw system *)

\* Camera::get_ray(rng, u, v): one lens draw, the ray class from u, v and it
CameraGetRay(s, u, v) ==
    LET lens == GenRange(s, 2)
    IN  [ray |-> (u + v + lens.val) % NRays, rng |-> lens.rng]

\* lines 91-102
GetRay(s, width, height) ==
    LET x == GenRange(s, width)
        y == GenRange(x.rng, height)
        fu == GenF64(y.rng)
        u == (x.val * Unit + fu.val) \div width
        fv == GenF64(fu.rng)
        v == (y.val * Unit + fv.val) \div height
        cam == CameraGetRay(fv.rng, u, v)
    IN  [x |-> x.val, y |-> y.val, ray |-> cam.ray, rng |-> cam.rng]

\* a draw that forgets to turn the row over
FlipYNone(p, y) == y

\* line 212: let y = pixels.height - 1 - y
FlipY(p, y) == p.height - 1 - y

\* lines 210-213: one pass of the sampling loop.  log records, for the
\* history variables, the camera pixel, the add_color arguments and the colour.
DrawSample(st, objs) ==
    LET g == GetRay(st.rng, st.pixels.width, st.pixels.height)
        c == RayColor(objs, g.rng, g.ray, RecursionDepth)
        y == FlipY(st.pixels, g.y)
    IN  [pixels |-> AddColor(st.pixels, g.x, y, c.color),
         rng |-> c.rng,
         log |-> Append(st.log, [x |-> g.x, cy |-> g.y, y |-> y,
                                 color |-> c.color])]

RECURSIVE DrawLoop(_, _, _)
DrawLoop(st, objs, n) ==
    IF n = 0 THEN st ELSE DrawLoop(DrawSample(st, objs), objs, n - 1)

\* a loop that runs once too often
DrawBatchOneMore(st, objs) == DrawLoop(st, objs, BatchSize + 1)

\* line 209: for _ in 0..10000
DrawBatch(st, objs) == DrawLoop(st, objs, BatchSize)

\* a conversion that rounds to the nearest byte
ToU8Rounding(c) ==
    LET scaled == c * 255
        clamped == IF scaled < 0 THEN 0
                   ELSE IF scaled > 255 * Unit THEN 255 * Unit ELSE scaled
    IN  (2 * clamped + Unit) \div (2 * Unit)

\* lines 217-219: (c * 255.0).clamp(0.0, 255.0) as u8; the cast drops the
\* fraction
ToU8(c) ==
    LET scaled == c * 255
        clamped == IF scaled < 0 THEN 0
                   ELSE IF scaled > 255 * Unit THEN 255 * Unit ELSE scaled
    IN  clamped \div Unit

\* lines 216-221: the bytes of the frame after the conversion loop
DrawFrame(fr, items) ==
    [j \in 1 .. Len(fr) |->
        LET i == (j - 1) \div 4
            c == (j - 1) % 4
        IN  IF i >= Len(items) THEN fr[j]
            ELSE IF c = 3 THEN 255
            ELSE ToU8(items[i + 1][c + 1])]

CameraPixels == (0 .. (WIDTH - 1)) \X (0 .. (HEIGHT - 1))

\* h with every logged colour appended at the pixel the log names by key
Logged(h, log, byCamera) ==
    [p \in DOMAIN h |->
        LET mine == SelectSeq(log, LAMBDA e :
                        <<e.x, IF byCamera THEN e.cy ELSE e.y>> = p)
        IN  h[p] \o [k \in 1 .. Len(mine) |-> mine[k].color]]

\* lines 167-173: the generator seeded from entropy, the world built, an
\* empty accumulation buffer inserted; no window yet
Init ==
    /\ rng \in 0 .. (RngMod - 1)
    /\ hitBound \in {"open", "closed"}
    /\ objects \in SeqsUpTo(Objects, 1)
    /\ pixels = PixelsNew(WIDTH, HEIGHT)
    /\ frame = <<>>
    /\ wrapper = "none"
    /\ drawn = [p \in CameraPixels |-> <<>>]
    /\ added = [p \in CameraPixels |-> <<>>]
    /\ ticks = 0
    /\ idle = 0
    /\ shown = <<>>
    /\ ray = 0
    /\ depth = 0
    /\ result = NoResult
    /\ BuildIdle

\* lines 188-195: PixelsPlugin gives the primary window its WIDTH x HEIGHT
\* RGBA frame
PixelsStartup ==
    /\ wrapper = "none"
    /\ wrapper' = "present"
    /\ frame' = [j \in 1 .. (WIDTH * HEIGHT * 4) |-> 0]
    /\ UNCHANGED <<hitBound, rng, objects, pixels, drawn, added, ticks, idle,
                   shown, ray, depth, result, aspect, world>>

\* line 196: close_on_esc despawns the window and its wrapper with it
CloseOnEsc ==
    /\ wrapper = "present"
    /\ wrapper' = "closed"
    /\ frame' = <<>>
    /\ UNCHANGED <<hitBound, rng, objects, pixels, drawn, added, ticks, idle,
                   shown, ray, depth, result, aspect, world>>

\* lines 201-222
Draw ==
    IF wrapper # "present"
    THEN \* line 207: no single wrapper, return
         /\ idle < MaxIdle
         /\ idle' = idle + 1
         /\ UNCHANGED <<hitBound, rng, objects, pixels, frame, wrapper, drawn,
                        added, ticks, shown, ray, depth, result, aspect,
                        world>>
    ELSE /\ ticks < MaxTicks
         /\ Len(frame) = Len(pixels.pixels) * 4
         /\ LET st == DrawBatch([pixels |-> pixels, rng |-> rng, log |-> <<>>],
                                objects)
                read == Iter(st.pixels)
            IN  /\ pixels' = read.self
                /\ rng' = st.rng
                /\ frame' = DrawFrame(frame, read.items)
                /\ drawn' = Logged(drawn, st.log, TRUE)
                /\ added' = Logged(added, st.log, FALSE)
                /\ shown' = read.items
         /\ ticks' = ticks + 1
         /\ UNCHANGED <<hitBound, objects, wrapper, idle, ray, depth, result,
                        aspect, world>>

Next == PixelsStartup \/ CloseOnEsc \/ Draw

Spec == Init /\ [][Next]_vars

----------------------------------------------------------------------------
(* Claims about the accumulation buffer and the draw system (Spec) *)

RECURSIVE SumColors(_)
SumColors(cs) ==
    IF cs = <<>> THEN BLACK ELSE ColorAdd(Head(cs), SumColors(Tail(cs)))

\* (c_1 + ... + c_n) / n, black for no colours
Average(cs) ==
    IF cs = <<>> THEN BLACK ELSE ColorDiv(SumColors(cs), Len(cs))

\* C1: a pixel that received add_color n >= 1 times with c_1..c_n reads as
\* (c_1 + ... + c_n) / n and has sample count n; a pixel that received none
\* reads black; no call touches the sum or count of another pixel.
C1_RunningAverage ==
    \A p \in CameraPixels :
        LET i == p[2] * pixels.width + p[1] + 1
        IN  /\ pixels.pixels[i].count = Len(added[p])
            /\ pixels.pixels[i].sum = SumColors(added[p])
            /\ Iter(pixels).items[i] = Average(added[p])

C1_Witness ==
    \E p, q \in CameraPixels :
        /\ Len(added[p]) >= 2
        /\ added[p][1] # added[p][Len(added[p])]
        /\ Average(added[p]) # added[p][Len(added[p])]
        /\ added[q] = <<>>
        /\ Iter(pixels).items[q[2] * pixels.width + q[1] + 1] = BLACK

\* C2: a read leaves every sum and count as it was, so a second read after
\* a draw yields what the draw's own read yielded and converts to the bytes
\* the draw wrote.
C2_ReadsRepeatable ==
    ticks > 0 =>
        /\ Iter(pixels).self = pixels
        /\ Iter(pixels).items = shown
        /\ Iter(Iter(pixels).self).items = shown
        /\ wrapper = "present" => DrawFrame(frame, Iter(pixels).items) = frame

C2_Witness ==
    /\ ticks > 0
    /\ wrapper = "present"
    /\ \E i \in 1 .. Len(shown) : shown[i] # BLACK /\ pixels.pixels[i].count > 1

\* b is channel value c scaled to 0..255 with the fraction dropped
IsFloorByte(c, b) ==
    IF c <= 0 THEN b = 0
    ELSE IF c >= Unit THEN b = 255
    ELSE b * Unit <= c * 255 /\ c * 255 < (b + 1) * Unit

\* b is channel value c scaled to 0..255 and rounded to the nearest integer
IsNearestByte(c, b) ==
    IF c <= 0 THEN b = 0
    ELSE IF c >= Unit THEN b = 255
    ELSE 2 * b * Unit - Unit <= 2 * c * 255 /\ 2 * c * 255 <= 2 * b * Unit + Unit

\* C5 as stated: every channel of every pixel becomes round(clamp(c,0,1)*255)
\* and the fourth byte is 255.
C5_RoundsToNearest ==
    (wrapper = "present" /\ ticks > 0) =>
        \A i \in 1 .. Len(pixels.pixels) :
            /\ \A c \in 1 .. 3 :
                 IsNearestByte(Iter(pixels).items[i][c], frame[4 * (i - 1) + c])
            /\ frame[4 * i] = 255

\* C5 (amended): every channel of every pixel becomes clamp(c,0,1)*255 with
\* the fraction dropped (254.6 becomes 254), and the fourth byte is 255.
C5_Truncates ==
    (wrapper = "present" /\ ticks > 0) =>
        \A i \in 1 .. Len(pixels.pixels) :
            /\ \A c \in 1 .. 3 :
                 IsFloorByte(Iter(pixels).items[i][c], frame[4 * (i - 1) + c])
            /\ frame[4 * i] = 255

C5_Witness ==
    /\ wrapper = "present"
    /\ ticks > 0
    /\ \E i \in 1 .. Len(pixels.pixels) : \E c \in 1 .. 3 :
         LET v == Iter(pixels).items[i][c]
         IN  /\ 2 * ((v * 255) % Unit) > Unit
             /\ frame[4 * (i - 1) + c] = (v * 255) \div Unit
             /\ frame[4 * (i - 1) + c] < 254

\* the display pixel of camera pixel <<x, y>>, rows counted from the top
DisplaySlot(p) == (HEIGHT - 1 - p[2]) * WIDTH + p[1]

\* C6: the frame has WIDTH*HEIGHT*4 bytes; the samples drawn for camera
\* pixel (x, y) land in display pixel (HEIGHT-1-y)*WIDTH + x, bytes 4k+0..3
\* of it, and nowhere else; the slots are inside the buffer and distinct.
C6_DisplayLayout ==
    /\ wrapper = "present" => Len(frame) = WIDTH * HEIGHT * 4
    /\ \A p \in CameraPixels :
         /\ DisplaySlot(p) \in 0 .. (Len(pixels.pixels) - 1)
         /\ pixels.pixels[DisplaySlot(p) + 1].count = Len(drawn[p])
         /\ pixels.pixels[DisplaySlot(p) + 1].sum = SumColors(drawn[p])
         /\ \A q \in CameraPixels : DisplaySlot(p) = DisplaySlot(q) => p = q
    /\ (wrapper = "present" /\ ticks > 0) =>
         \A p \in CameraPixels :
             /\ 4 * DisplaySlot(p) + 4 <= Len(frame)
             /\ \A c \in 1 .. 3 :
                  frame[4 * DisplaySlot(p) + c] = ToU8(Average(drawn[p])[c])
             /\ frame[4 * DisplaySlot(p) + 4] = 255

C6_Witness ==
    /\ wrapper = "present"
    /\ ticks > 0
    /\ \E p \in CameraPixels :
         /\ drawn[p] # <<>>
         /\ drawn[<<p[1], HEIGHT - 1 - p[2]>>] = <<>>
         /\ frame[4 * DisplaySlot(p) + 1] > 0
         /\ frame[4 * (p[2] * WIDTH + p[1]) + 1] = 0

RECURSIVE TotalFrom(_, _)
TotalFrom(ps, i) ==
    IF i > Len(ps) THEN 0 ELSE ps[i].count + TotalFrom(ps, i + 1)

\* the sum of all per-pixel sample counts
TotalSamples(p) == TotalFrom(p.pixels, 1)

\* C7: every draw run with a pixel buffer adds exactly BatchSize to the sum
\* of the sample counts, which is BatchSize * k after k runs, and changes
\* nothing but the buffer, the generator and the frame; a run without a
\* pixel buffer changes neither the buffer nor the generator nor the frame;
\* the scene never changes.
C7_FixedBatch ==
    /\ [](TotalSamples(pixels) = BatchSize * ticks)
    /\ [][/\ objects' = objects
          /\ ticks' # ticks =>
               /\ ticks' = ticks + 1
               /\ TotalSamples(pixels') = TotalSamples(pixels) + BatchSize
               /\ wrapper' = wrapper
               /\ Len(frame') = Len(frame)
          /\ idle' # idle =>
               /\ pixels' = pixels
               /\ rng' = rng
               /\ frame' = frame
               /\ ticks' = ticks]_vars

C7_Witness ==
    /\ ticks = MaxTicks
    /\ idle > 0
    /\ TotalSamples(pixels) = BatchSize * MaxTicks
    /\ objects # <<>>

----------------------------------------------------------------------------
(* World::from_rng.  Lengths are in tenths (radius 0.2 is 2), the threshold *)
(* draw r in hundredths.                                                    *)

\* lines 40-41: for a in -11..11, for b in -11..11 (the end excluded)
GridHalf == 11

\* rng.gen::<Vector>(): three draws of [0, 1)
GenVector(s) ==
    LET x == GenF64(s)
        y == GenF64(x.rng)
        z == GenF64(y.rng)
    IN  [val |-> <<x.val, y.val, z.val>>, rng |-> z.rng]

\* lines 51-62: the material for threshold draw r, and the draws it takes
GridMaterial(r, s) ==
    IF r < 80
    THEN LET v == GenVector(s)
             w == GenVector(v.rng)
             sq == ColorMul(w.val, w.val)
         IN  [material |-> Lambertian(ColorMul(v.val, sq)), rng |-> w.rng,
              draws |-> 6]
    ELSE IF r < 95
    THEN LET v == GenVector(s)
             f == GenRange(v.rng, Unit \div 2)
         IN  [material |->
                  Metal(ColorAdd(ColorDiv(v.val, 2),
                                 Color(Unit \div 2, Unit \div 2, Unit \div 2)),
                        f.val),
              rng |-> f.rng, draws |-> 4]
    ELSE [material |-> Dielectric(15), rng |-> s, draws |-> 0]

\* line 47: (center - vec3!(4.0, 0.2, 0.0)).norm() < 0.9
NearExclusion(center) ==
    LET dx == center[1] - 40
        dy == center[2] - 2
        dz == center[3]
    IN  dx * dx + dy * dy + dz * dz < 81

\* a loop body that draws the threshold before it looks at the centre
GridCellDrawsFirst(st, a, b) ==
    LET ja == GenRange(st.rng, 9)
        jb == GenRange(ja.rng, 9)
        center == <<a * 10 + ja.val, 2, b * 10 + jb.val>>
        r == GenRange(jb.rng, 100)
        m == GridMaterial(r.val, r.rng)
    IN  IF NearExclusion(center)
        THEN [rng |-> r.rng, objects |-> st.objects,
              log |-> Append(st.log, [a |-> a, b |-> b, kept |-> FALSE,
                                      r |-> 0, draws |-> 3])]
        ELSE [rng |-> m.rng,
              objects |-> Append(st.objects,
                                 [sphere |-> [center |-> center, radius |-> 2],
                                  material |-> m.material]),
              log |-> Append(st.log, [a |-> a, b |-> b, kept |-> TRUE,
                                      r |-> r.val, draws |-> 3 + m.draws])]

\* lines 42-66: the body of the grid loops.  log records, per cell, whether
\* it was kept, the threshold drawn and the number of draws taken.
GridCell(st, a, b) ==
    LET ja == GenRange(st.rng, 9)
        jb == GenRange(ja.rng, 9)
        center == <<a * 10 + ja.val, 2, b * 10 + jb.val>>
    IN  IF NearExclusion(center)
        THEN [rng |-> jb.rng, objects |-> st.objects,
              log |-> Append(st.log, [a |-> a, b |-> b, kept |-> FALSE,
                                      r |-> 0, draws |-> 2])]
        ELSE LET r == GenRange(jb.rng, 100)
                 m == GridMaterial(r.val, r.rng)
             IN  [rng |-> m.rng,
                  objects |-> Append(st.objects,
                                     [sphere |-> [center |-> center,
                                                  radius |-> 2],
                                      material |-> m.material]),
                  log |-> Append(st.log, [a |-> a, b |-> b, kept |-> TRUE,
                                          r |-> r.val, draws |-> 3 + m.draws])]

\* e, with the loop state st evaluated first (TLC defers the evaluation of
\* operator arguments, which would nest every pass of a loop in the next)
After(st, e) == IF st.rng >= 0 THEN e ELSE st

RECURSIVE GridRow(_, _, _, _)
\* line 41: for b in lo..hi (hi excluded), the range taken in two halves
GridRow(st, a, lo, hi) ==
    IF hi <= lo THEN st
    ELSE IF hi = lo + 1 THEN GridCell(st, a, lo)
    ELSE LET mid == lo + (hi - lo) \div 2
             left == GridRow(st, a, lo, mid)
         IN  After(left, GridRow(left, a, mid, hi))

RECURSIVE GridRows(_, _, _)
\* line 40: for a in lo..hi (hi excluded), the range taken in two halves
GridRows(st, lo, hi) ==
    IF hi <= lo THEN st
    ELSE IF hi = lo + 1 THEN GridRow(st, lo, -GridHalf, GridHalf)
    ELSE LET mid == lo + (hi - lo) \div 2
             left == GridRows(st, lo, mid)
         IN  After(left, GridRows(left, mid, hi))

\* lines 34-39
Ground ==
    [sphere |-> [center |-> <<0, -10000, 0>>, radius |-> 10000],
     material |-> Lambertian(Color(Unit \div 2, Unit \div 2, Unit \div 2))]

\* lines 69-87
Heroes ==
    <<[sphere |-> [center |-> <<0, 10, 0>>, radius |-> 10],
       material |-> Dielectric(15)],
      [sphere |-> [center |-> <<-40, 10, 0>>, radius |-> 10],
       material |-> Lambertian(Color((4 * Unit) \div 10, (2 * Unit) \div 10,
                                     Unit \div 10))],
      [sphere |-> [center |-> <<40, 10, 0>>, radius |-> 10],
       material |-> Metal(Color((7 * Unit) \div 10, (6 * Unit) \div 10,
                                Unit \div 2), 0)]>>

\* lines 26-31
CameraBuilder(aspect_ratio) ==
    [look_from |-> <<130, 20, 30>>, look_at |-> <<0, 0, 0>>,
     vertical_field_of_view |-> 20, aspect_ratio |-> aspect_ratio,
     blur |-> 1]

\* lines 25-89
FromRng(s, aspect_ratio) ==
    LET g == GridRows([rng |-> s, objects |-> <<Ground>>, log |-> <<>>],
                      -GridHalf, GridHalf)
    IN  [world |-> [built |-> TRUE, camera |-> CameraBuilder(aspect_ratio),
                    objects |-> g.objects \o Heroes, log |-> g.log],
         rng |-> g.rng]

\* aspect ratios tried, in tenths (main passes WIDTH / HEIGHT = 1.5)
AspectRatios == {10, 15, 20}

InitWorld ==
    /\ rng \in 0 .. (RngMod - 1)
    /\ hitBound = "open"
    /\ aspect \in AspectRatios
    /\ world = [built |-> FALSE]
    /\ objects = <<>>
    /\ ray = 0
    /\ depth = 0
    /\ result = NoResult
    /\ RenderIdle

\* World::from_rng(&mut rng, aspect_ratio)
FromRngCall ==
    /\ ~world.built
    /\ LET f == FromRng(rng, aspect)
       IN  /\ world' = f.world
           /\ rng' = f.rng
    /\ UNCHANGED <<hitBound, objects, pixels, frame, wrapper, drawn, added,
                   ticks, idle, shown, ray, depth, result, aspect>>

NextWorld == FromRngCall

SpecWorld == InitWorld /\ [][NextWorld]_vars

\* the grid cell a small sphere's centre lies in
CellOf(center) ==
    <<IF center[1] >= 0 THEN center[1] \div 10
      ELSE -((9 - center[1]) \div 10),
      IF center[3] >= 0 THEN center[3] \div 10
      ELSE -((9 - center[3]) \div 10)>>

\* the cells the loops kept, in order
KeptCells(log) == SelectSeq(log, LAMBDA e : e.kept)

\* C10: the first object is the radius-1000 gray diffuse ground, the last
\* three are the radius-1.0 dielectric, diffuse and zero-fuzz metal spheres,
\* every object between is a radius-0.2 sphere of its own grid cell, not
\* within 0.9 of the exclusion point, with the material its threshold draw
\* selects; there are between 4 and 488 objects; a skipped cell takes no
\* material draw.
C10_SceneShape ==
    world.built =>
        LET objs == world.objects
            n == Len(objs)
            kept == KeptCells(world.log)
        IN  /\ n >= 4 /\ n <= 488
            /\ n = Len(kept) + 4
            /\ Cardinality({CellOf(objs[i].sphere.center) : i \in 2 .. (n - 3)})
                   = n - 4
            /\ objs[1].sphere.radius = 10000
            /\ objs[1].material =
                   Lambertian(Color(Unit \div 2, Unit \div 2, Unit \div 2))
            /\ objs[n - 2].sphere.radius = 10
            /\ objs[n - 2].material.kind = "Dielectric"
            /\ objs[n - 1].sphere.radius = 10
            /\ objs[n - 1].material.kind = "Lambertian"
            /\ objs[n].sphere.radius = 10
            /\ objs[n].material.kind = "Metal"
            /\ objs[n].material.fuzz = 0
            /\ \A i \in 2 .. (n - 3) :
                 LET o == objs[i]
                     e == kept[i - 1]
                 IN  /\ o.sphere.radius = 2
                     /\ CellOf(o.sphere.center) = <<e.a, e.b>>
                     /\ e.a \in -11 .. 10 /\ e.b \in -11 .. 10
                     /\ ~NearExclusion(o.sphere.center)
                     /\ e.r < 80 => o.material.kind = "Lambertian"
                     /\ (e.r >= 80 /\ e.r < 95) =>
                          /\ o.material.kind = "Metal"
                          /\ o.material.fuzz >= 0
                          /\ 2 * o.material.fuzz < Unit
                     /\ e.r >= 95 =>
                          /\ o.material.kind = "Dielectric"
                          /\ o.material.index_of_refraction = 15
            /\ \A k \in 1 .. Len(world.log) :
                 ~world.log[k].kept => world.log[k].draws = 2

C10_Witness ==
    /\ world.built
    /\ \E k \in 1 .. Len(world.log) : ~world.log[k].kept
    /\ \E k \in 1 .. Len(world.log) :
         world.log[k].kept /\ world.log[k].r >= 95
    /\ \E k \in 1 .. Len(world.log) :
         world.log[k].kept /\ world.log[k].r >= 80 /\ world.log[k].r < 95
    /\ Len(world.objects) < 488

====
